---- MODULE Spec2Model ----
(***************************************************************************)
(* A model of gradio_app.py: the resolution of two requirements manifests  *)
(* (parse_requirements, merge_specifiers, get_available_versions,          *)
(* select_version, analyze_requirements, compare_requirements).            *)
(*                                                                         *)
(* Text is modelled as a sequence of tokens.  A token is a space, a '#',   *)
(* one character of a package name, a ',', one well-formed version clause  *)
(* such as ">=2" (operator and version), or a piece of text that is        *)
(* neither ("@@@bad").  A version is a release number with an optional     *)
(* pre-release marker ("2a1" < "2").  The membership test of a specifier   *)
(* set follows packaging.specifiers (pre-releases are accepted only when   *)
(* some clause of the set names one).                                      *)
(***************************************************************************)
EXTENDS Integers, Sequences, FiniteSets, TLC

\* ------------------------------------------------------------------ bounds
MaxRel == 2        \* release numbers 1..MaxRel
MaxLines == 1      \* lines of a manifest text given to compare_requirements
MaxParseLines == 2 \* lines of a text given to parse_requirements alone
MaxCatalog == 1    \* valid versions the index publishes for one package
MaxSetLen == 2     \* clauses of a constraint set given to a function alone

\* ----------------------------------------------------------------- values
None == [none |-> TRUE]

Some(x) == [none |-> FALSE, val |-> x]

Versions == [rel : 1..MaxRel, pre : BOOLEAN]

\* packaging.version.Version ordering: 1a1 < 1 < 2a1 < 2 < ...
VersionKey(v) == 2 * v.rel + (IF v.pre THEN 0 ELSE 1)

VersionLess(v, w) == VersionKey(v) < VersionKey(w)

Operators == {"==", "!=", "<", "<=", ">", ">="}

Clauses == [op : Operators, rel : 1..MaxRel, pre : BOOLEAN]

ClauseVersion(c) == [rel |-> c.rel, pre |-> c.pre]

\* tokens of manifest text
Sp == [t |-> "sp"]
Hash == [t |-> "hash"]
Comma == [t |-> "comma"]
Junk == [t |-> "junk"]
Ch(c) == [t |-> "ch", c |-> c]
Cl(o, r, p) == [t |-> "clause", op |-> o, rel |-> r, pre |-> p]

\* ------------------------------------------------------ string operations
\* str.strip(): leading and trailing white space removed
RECURSIVE LStrip(_)
LStrip(s) == IF s # <<>> /\ Head(s) = Sp THEN LStrip(Tail(s)) ELSE s

RECURSIVE RStrip(_)
RStrip(s) ==
    IF s # <<>> /\ s[Len(s)] = Sp THEN RStrip(SubSeq(s, 1, Len(s) - 1)) ELSE s

Strip(s) == RStrip(LStrip(s))

\* str.lower() on the characters of a package name
LowerChar(c) == CASE c = "A" -> "a" [] c = "B" -> "b" [] OTHER -> c

Lower(name) == [i \in 1..Len(name) |-> LowerChar(name[i])]

\* code point of a character, the order Python compares strings by
CharRank(c) ==
    CASE c = "-" -> 45 [] c = "A" -> 65 [] c = "B" -> 66
      [] c = "a" -> 97 [] c = "b" -> 98 [] OTHER -> 0

RECURSIVE StrLess(_, _)
StrLess(s, u) ==
    IF u = <<>> THEN FALSE
    ELSE IF s = <<>> THEN TRUE
    ELSE IF Head(s) = Head(u) THEN StrLess(Tail(s), Tail(u))
    ELSE CharRank(Head(s)) < CharRank(Head(u))

\* the length of the longest prefix of name characters: group 1 of
\* ^([a-zA-Z0-9_-]+)(.*)
RECURSIVE NameLen(_)
NameLen(s) ==
    IF s # <<>> /\ Head(s).t = "ch" THEN 1 + NameLen(Tail(s)) ELSE 0

\* ---------------------------------------------------------- SpecifierSet
\* str.split(","): the pieces between the commas
RECURSIVE SplitComma(_, _)
SplitComma(s, cur) ==
    IF s = <<>> THEN <<cur>>
    ELSE IF Head(s) = Comma THEN <<cur>> \o SplitComma(Tail(s), <<>>)
    ELSE SplitComma(Tail(s), Append(cur, Head(s)))

\* the stripped, non-empty pieces of a specifier text
Pieces(spec) ==
    LET ps == SplitComma(spec, <<>>)
    IN  {Strip(ps[i]) : i \in {j \in 1..Len(ps) : Strip(ps[j]) # <<>>}}

\* Specifier(piece) raises InvalidSpecifier unless the piece is one clause
ValidPiece(p) == Len(p) = 1 /\ p[1].t = "clause"

\* SpecifierSet(text) raises InvalidSpecifier when some piece is no clause
InvalidSpecifier(spec) == \E p \in Pieces(spec) : ~ValidPiece(p)

\* SpecifierSet(text): the set of its clauses
SpecifierSet(spec) ==
    {[op |-> p[1].op, rel |-> p[1].rel, pre |-> p[1].pre] : p \in Pieces(spec)}

\* Specifier.prereleases: the clause names a pre-release
ClausePrereleases(c) == c.op \in {"==", ">=", "<="} /\ c.pre

\* SpecifierSet.prereleases
SetPrereleases(s) == \E c \in s : ClausePrereleases(c)

\* Specifier.contains(version, prereleases=True): one operator comparison
ClauseContains(c, v) ==
    LET w == ClauseVersion(c)
    IN  CASE c.op = "==" -> v = w
          [] c.op = "!=" -> v # w
          [] c.op = "<=" -> VersionKey(v) <= VersionKey(w)
          [] c.op = ">=" -> VersionKey(v) >= VersionKey(w)
          [] c.op = "<"  -> /\ VersionLess(v, w)
                            /\ ~(~w.pre /\ v.pre /\ v.rel = w.rel)
          [] c.op = ">"  -> VersionLess(w, v)

\* `version in spec_set`, SpecifierSet.__contains__
Contains(s, v) ==
    /\ ~(v.pre /\ ~SetPrereleases(s))
    /\ \A c \in s : ClauseContains(c, v)

\* ---------------------------------------------------- parse_requirements
\* one line of parse_requirements: what the loop body does with it
\*   [kind |-> "skip"]                       blank, comment or no name
\*   [kind |-> "dep", pkg, spec]             dependencies[pkg] = spec
\*   [kind |-> "error", pkg, text]           return None, "Invalid ..."
ParseLine(raw) ==
    LET line == Strip(raw)
        n == NameLen(line)
    IN  IF line = <<>> \/ Head(line) = Hash \/ n = 0 THEN [kind |-> "skip"]
        ELSE LET name == [i \in 1..n |-> line[i].c]
                 pkg_name == Lower(name)
                 spec == Strip(SubSeq(line, n + 1, Len(line)))
             IN  IF spec = <<>>
                 THEN [kind |-> "dep", pkg |-> pkg_name, spec |-> {}]
                 ELSE IF InvalidSpecifier(spec)
                      THEN [kind |-> "error", pkg |-> pkg_name, text |-> spec]
                      ELSE [kind |-> "dep", pkg |-> pkg_name,
                            spec |-> SpecifierSet(spec)]

\* a dict whose first write wins
DictPutFirst(d, k, val) ==
    [x \in DOMAIN d \cup {k} |-> IF x \in DOMAIN d THEN d[x] ELSE val]

\* dependencies[pkg] = spec on a dict modelled as a function
DictPut(d, k, val) == [x \in DOMAIN d \cup {k} |-> IF x = k THEN val ELSE d[x]]

EmptyDict == [x \in {} |-> {}]

\* f"Invalid specifier for {pkg_name}: {spec}"
InvalidSpecifierMessage(pkg_name, spec) ==
    [msg |-> "Invalid specifier for", pkg |-> pkg_name, text |-> spec]

\* parse_requirements(file_content) = (dependencies, error)
RECURSIVE ParseFrom(_, _)
ParseFrom(lines, dependencies) ==
    IF lines = <<>> THEN [deps |-> Some(dependencies), error |-> None]
    ELSE LET r == ParseLine(Head(lines))
         IN  CASE r.kind = "skip" -> ParseFrom(Tail(lines), dependencies)
               [] r.kind = "error" ->
                    [deps |-> None,
                     error |-> Some(InvalidSpecifierMessage(r.pkg, r.text))]
               [] r.kind = "dep" ->
                    ParseFrom(Tail(lines), DictPut(dependencies, r.pkg, r.spec))

parse_requirements(file_content) == ParseFrom(file_content, EmptyDict)

\* a merge that forgets the second operand
merge_specifiers_first(spec1, spec2) ==
    IF spec1 \cup spec2 = {} THEN None ELSE Some(spec1)

\* ------------------------------------------------------- merge_specifiers
\* spec1 & spec2 is the union of the clauses; `not merged` is len(merged) = 0
merge_specifiers(spec1, spec2) ==
    LET merged == spec1 \cup spec2
    IN  IF merged = {} THEN None ELSE Some(merged)

\* ------------------------------------------------- get_available_versions
\* a key of data['releases']: a version text, or text that is no version
VersionTexts == [valid : {TRUE}, rel : 1..MaxRel, pre : BOOLEAN]

BadText == [valid |-> FALSE, rel |-> 0, pre |-> FALSE]

Texts == VersionTexts \cup {BadText}

\* version.parse(text) of a valid text, and str(version)
VersionParse(t) == [rel |-> t.rel, pre |-> t.pre]

VersionStr(v) == [valid |-> TRUE, rel |-> v.rel, pre |-> v.pre]

\* what the index does when asked for a package
\*   "ok"           a JSON object whose 'releases' maps version texts
\*   "timeout", "transport"   requests.get raises a RequestException
\*   "http_error"   raise_for_status raises HTTPError
\*   "bad_json"     response.json() raises requests' JSONDecodeError
\*   "no_releases"  a JSON object without 'releases' (KeyError)
\*   "bad_shape"    JSON that is no object, or 'releases' that is no mapping
\*                  (TypeError, AttributeError)
CaughtKinds == {"timeout", "transport", "http_error", "bad_json", "no_releases"}

FailureKinds == CaughtKinds \cup {"bad_shape"}

Answer(k, rs) == [kind |-> k, releases |-> rs]

\* a sort without reverse=True
RECURSIVE SortDescForgotten(_)
SortDescForgotten(vs) ==
    IF vs = {} THEN <<>>
    ELSE LET m == CHOOSE v \in vs : \A w \in vs : VersionKey(v) <= VersionKey(w)
         IN  <<m>> \o SortDescForgotten(vs \ {m})

\* sorted(versions, reverse=True)
RECURSIVE SortDesc(_)
SortDesc(vs) ==
    IF vs = {} THEN <<>>
    ELSE LET m == CHOOSE v \in vs : \A w \in vs : VersionKey(w) <= VersionKey(v)
         IN  <<m>> \o SortDesc(vs \ {m})

\* sorted(available_versions)
RECURSIVE SortAsc(_)
SortAsc(vs) ==
    IF vs = {} THEN <<>>
    ELSE LET m == CHOOSE v \in vs : \A w \in vs : VersionKey(v) <= VersionKey(w)
         IN  <<m>> \o SortAsc(vs \ {m})

\* get_available_versions(package_name), given the index's answer:
\* only RequestException and KeyError are caught
get_available_versions(answer) ==
    IF answer.kind \in CaughtKinds THEN [raised |-> FALSE, versions |-> <<>>]
    ELSE IF answer.kind = "bad_shape" THEN [raised |-> TRUE, versions |-> <<>>]
    ELSE IF \E t \in answer.releases : ~t.valid
         THEN [raised |-> TRUE, versions |-> <<>>]
         ELSE [raised |-> FALSE,
               versions |-> SortDesc({VersionParse(t) : t \in answer.releases})]

\* --------------------------------------------------------- select_version
Range(seq) == {seq[i] : i \in 1..Len(seq)}

\* a scan that gives up after the first version
FirstInHeadOnly(versions, spec_set) ==
    IF versions # <<>> /\ Contains(spec_set, VersionParse(VersionStr(Head(versions))))
    THEN Some(Head(versions))
    ELSE None

\* for ver in versions: if str(ver) in spec_set: return ver
RECURSIVE FirstIn(_, _)
FirstIn(versions, spec_set) ==
    IF versions = <<>> THEN None
    ELSE IF Contains(spec_set, VersionParse(VersionStr(Head(versions))))
         THEN Some(Head(versions))
         ELSE FirstIn(Tail(versions), spec_set)

Selection(v, r) == [raised |-> FALSE, ver |-> v, reason |-> r]

\* select_version(spec_set, package_name), given the index's answer
select_version(spec_set, answer) ==
    LET got == get_available_versions(answer)
        available_versions == got.versions
        largest == FirstIn(available_versions, spec_set)
        smallest == FirstIn(SortAsc(Range(available_versions)), spec_set)
    IN  IF got.raised THEN [raised |-> TRUE, ver |-> None, reason |-> "raised"]
        ELSE IF available_versions = <<>>
             THEN Selection(None, "No versions available")
        ELSE IF ~largest.none
             THEN Selection(largest, "Selected largest version")
        ELSE IF ~smallest.none
             THEN Selection(smallest,
                            "No larger version found; selected smallest version")
        ELSE Selection(None, "No compatible version found in available versions")

\* --------------------------------------------------- analyze_requirements
VARIABLES
    file1_content,          \* the first manifest text (a sequence of lines)
    file2_content,          \* the second manifest text
    pc,                     \* "call", "loop", "done"; "unit" in the unit runs
    deps1, deps2,           \* the parsed manifests
    todo,                   \* sorted(all_packages) not yet visited
    results,                \* the rows appended so far
    resolved_requirements,  \* package -> str(version_selected)
    all_resolved,
    lookup,                 \* the index's answer to the latest request
    analysis,               \* what analyze_requirements returned
    response,               \* what compare_requirements returned
    call                    \* a function called on its own (unit runs)

vars == <<file1_content, file2_content, pc, deps1, deps2, todo, results,
          resolved_requirements, all_resolved, lookup, analysis, response, call>>

\* packages in descending order
RECURSIVE SortNamesReversed(_)
SortNamesReversed(names) ==
    IF names = {} THEN <<>>
    ELSE LET m == CHOOSE n \in names : \A o \in names \ {n} : StrLess(o, n)
         IN  <<m>> \o SortNamesReversed(names \ {m})

\* sorted(all_packages)
RECURSIVE SortNames(_)
SortNames(names) ==
    IF names = {} THEN <<>>
    ELSE LET m == CHOOSE n \in names : \A o \in names \ {n} : StrLess(n, o)
         IN  <<m>> \o SortNames(names \ {m})

\* deps.get(pkg, SpecifierSet(""))
DictGet(d, k) == IF k \in DOMAIN d THEN d[k] ELSE {}

Row(pkg, status, interval, selected, reason) ==
    [Package |-> pkg, Status |-> status, Interval |-> interval,
     Selected |-> selected, Reason |-> reason]

AnyVersion == [text |-> "Any version", a |-> {}, b |-> {}]

\* one iteration of `for pkg in sorted(all_packages)`: the row it appends
ResolveRow(pkg, spec1, spec2, answer) ==
    LET merged_spec == merge_specifiers(spec1, spec2)
    IN  IF spec1 = {} /\ spec2 = {}
        THEN LET sel == select_version({}, answer)
             IN  IF sel.raised THEN [raised |-> TRUE]
                 ELSE IF ~sel.ver.none
                 THEN [raised |-> FALSE,
                       row |-> Row(pkg, "Resolved", AnyVersion,
                                   Some(VersionStr(sel.ver.val)), sel.reason)]
                 ELSE [raised |-> FALSE,
                       row |-> Row(pkg, "Unresolved", AnyVersion, None, sel.reason)]
        ELSE IF merged_spec.none /\ (spec1 # {} \/ spec2 # {})
        THEN [raised |-> FALSE,
              row |-> Row(pkg, "Conflict",
                          [text |-> "vs", a |-> spec1, b |-> spec2], None,
                          "Incompatible version constraints")]
        ELSE LET sel == select_version(merged_spec.val, answer)
                 interval == [text |-> "merged", a |-> merged_spec.val, b |-> {}]
             IN  IF sel.raised THEN [raised |-> TRUE]
                 ELSE IF ~sel.ver.none
                 THEN [raised |-> FALSE,
                       row |-> Row(pkg, "Resolved", interval,
                                   Some(VersionStr(sel.ver.val)), sel.reason)]
                 ELSE [raised |-> FALSE,
                       row |-> Row(pkg, "Unresolved", interval, None, sel.reason)]

\* the pins in descending order of package name
ResolvedContentUnsorted(resolved) ==
    LET names == SortNamesReversed(DOMAIN resolved)
    IN  [i \in 1..Len(names) |-> [pkg |-> names[i], ver |-> resolved[names[i]]]]

\* "\n".join(f"{pkg}=={ver}" for pkg, ver in sorted(resolved.items()))
ResolvedContent(resolved) ==
    LET names == SortNames(DOMAIN resolved)
    IN  [i \in 1..Len(names) |-> [pkg |-> names[i], ver |-> resolved[names[i]]]]

\* the tuples the two functions return
AnalysisReturn(df, content, file, flag) ==
    [raised |-> FALSE, results_df |-> df, resolved_content |-> content,
     download_file |-> file, all_resolved |-> flag]

Raised == [raised |-> TRUE]

CompareReturn(df, content, file, flag, err) ==
    [raised |-> FALSE, results_df |-> df, resolved_content |-> content,
     download_file |-> file, all_resolved |-> flag, error |-> err]

\* a pandas DataFrame of rows, a str, or None, in one slot of a tuple
DataFrame(rows) == [type |-> "DataFrame", rows |-> rows]
Str(x) == [type |-> "str", val |-> x]
NoneValue == [type |-> "None"]
TempFile(content) == [type |-> "path", content |-> content]

\* lines 196-201 of compare_requirements, given what analyze returned
compare_return(a) ==
    IF a.results_df.type = "str"
    THEN CompareReturn(NoneValue, NoneValue, NoneValue, FALSE, a.results_df)
    ELSE CompareReturn(a.results_df, a.resolved_content, a.download_file,
                       a.all_resolved, NoneValue)

\* ------------------------------------------------------------ the inputs
\* "# a"
LineComment == <<Hash, Sp, Ch("a")>>
\* "b"
LineBare == <<Ch("b")>>
\* " A >=1, <2 "
LineRange == <<Sp, Ch("A"), Sp, Cl(">=", 1, FALSE), Comma, Sp, Cl("<", 2, FALSE), Sp>>
\* "a==1"
LineEq1 == <<Ch("a"), Cl("==", 1, FALSE)>>
\* "a==2"
LineEq2 == <<Ch("a"), Cl("==", 2, FALSE)>>
\* "b>=2a1"
LinePre == <<Ch("b"), Cl(">=", 2, TRUE)>>
\* "a@@@bad"
LineBad == <<Ch("a"), Junk>>

Lines == {LineComment, LineBare, LineRange, LineEq1, LineEq2, LinePre, LineBad}

SeqsUpTo(S, n) == UNION {[1..k -> S] : k \in 0..n}

\* the subsets of S with at most n elements
RECURSIVE SubsetsUpTo(_, _)
SubsetsUpTo(S, n) ==
    IF n = 0 THEN {{}}
    ELSE LET P == SubsetsUpTo(S, n - 1)
         IN  P \cup {p \cup {x} : p \in P, x \in S}

FileContents == SeqsUpTo(Lines, MaxLines)

\* answers with an invalid key among at most one valid one, and the failures
OddAnswers ==
    {Answer("ok", rs \cup {BadText}) : rs \in SubsetsUpTo(VersionTexts, 1)}
    \cup {Answer(k, {}) : k \in FailureKinds}

Answers ==
    {Answer("ok", rs) : rs \in SubsetsUpTo(VersionTexts, MaxCatalog)}
    \cup OddAnswers

\* nothing returned yet
Pending == [raised |-> FALSE, results_df |-> [type |-> "pending"]]

NoAnswer == Answer("none", {})

Init ==
    /\ file1_content \in FileContents
    /\ file2_content \in FileContents
    /\ call = [fn |-> "compare_requirements"]
    /\ pc = "call"
    /\ deps1 = EmptyDict
    /\ deps2 = EmptyDict
    /\ todo = <<>>
    /\ results = <<>>
    /\ resolved_requirements = EmptyDict
    /\ all_resolved = TRUE
    /\ lookup = NoAnswer
    /\ analysis = Pending
    /\ response = Pending

\* compare_requirements, lines 193-194: a text is missing
CompareEmpty ==
    /\ pc = "call"
    /\ call.fn = "compare_requirements"
    /\ file1_content = <<>> \/ file2_content = <<>>
    /\ response' = CompareReturn(NoneValue, NoneValue, NoneValue, FALSE,
                                 Str("Please provide content for both files"))
    /\ pc' = "done"
    /\ UNCHANGED <<file1_content, file2_content, deps1, deps2, todo, results,
                   resolved_requirements, all_resolved, lookup, analysis, call>>

\* compare_requirements, line 196: analyze_requirements is entered
Entered ==
    /\ pc = "call"
    /\ call.fn = "compare_requirements"
    /\ file1_content # <<>> /\ file2_content # <<>>

\* analyze_requirements, lines 72-76: a manifest does not parse; and what
\* compare_requirements makes of the tuple, lines 198-201
AnalyzeError ==
    LET p1 == parse_requirements(file1_content)
        p2 == parse_requirements(file2_content)
        err == IF ~p1.error.none THEN p1.error.val ELSE p2.error.val
        a == AnalysisReturn(NoneValue, NoneValue, Str(err), FALSE)
    IN  /\ Entered
        /\ ~p1.error.none \/ ~p2.error.none
        /\ analysis' = a
        /\ response' = compare_return(a)
        /\ pc' = "done"
        /\ UNCHANGED <<file1_content, file2_content, deps1, deps2, todo,
                       results, resolved_requirements, all_resolved, lookup, call>>

\* analyze_requirements, lines 72-81: both manifests parse
AnalyzeStart ==
    LET p1 == parse_requirements(file1_content)
        p2 == parse_requirements(file2_content)
    IN  /\ Entered
        /\ p1.error.none /\ p2.error.none
        /\ deps1' = p1.deps.val
        /\ deps2' = p2.deps.val
        /\ todo' = SortNames(DOMAIN p1.deps.val \cup DOMAIN p2.deps.val)
        /\ results' = <<>>
        /\ resolved_requirements' = EmptyDict
        /\ all_resolved' = TRUE
        /\ pc' = "loop"
        /\ UNCHANGED <<file1_content, file2_content, lookup, analysis,
                       response, call>>

\* lines 83-138: one package, with the index's answer to its request; an
\* exception that get_available_versions does not catch leaves both functions
ResolvePackage ==
    /\ pc = "loop"
    /\ todo # <<>>
    /\ \E answer \in Answers :
         LET pkg == Head(todo)
             r == ResolveRow(pkg, DictGet(deps1, pkg), DictGet(deps2, pkg), answer)
         IN  /\ lookup' = answer
             /\ IF r.raised
                THEN /\ analysis' = Raised
                     /\ response' = Raised
                     /\ pc' = "done"
                     /\ UNCHANGED <<todo, results, resolved_requirements,
                                    all_resolved>>
                ELSE /\ results' = Append(results, r.row)
                     /\ resolved_requirements' =
                            IF r.row.Status = "Resolved"
                            THEN DictPut(resolved_requirements, pkg,
                                         r.row.Selected.val)
                            ELSE resolved_requirements
                     /\ all_resolved' = (all_resolved /\ r.row.Status = "Resolved")
                     /\ todo' = Tail(todo)
                     /\ UNCHANGED <<analysis, response, pc>>
    /\ UNCHANGED <<file1_content, file2_content, deps1, deps2, call>>

\* lines 140-149, and lines 198-201 of compare_requirements
AnalyzeReturn ==
    LET written == all_resolved /\ DOMAIN resolved_requirements # {}
        content == ResolvedContent(resolved_requirements)
        a == AnalysisReturn(DataFrame(results),
                            IF written THEN Str(content) ELSE NoneValue,
                            IF written THEN TempFile(content) ELSE NoneValue,
                            all_resolved)
    IN  /\ pc = "loop"
        /\ todo = <<>>
        /\ analysis' = a
        /\ response' = compare_return(a)
        /\ pc' = "done"
        /\ UNCHANGED <<file1_content, file2_content, deps1, deps2, todo,
                       results, resolved_requirements, all_resolved, lookup, call>>

Next ==
    \/ CompareEmpty
    \/ AnalyzeError
    \/ AnalyzeStart
    \/ ResolvePackage
    \/ AnalyzeReturn

Spec == Init /\ [][Next]_vars

\* ------------------------------------------- the functions on their own
\* " "
LineBlank == <<Sp>>
\* "@a"
LineNoName == <<Junk, Ch("a")>>
\* "aB!=1"
LineLong == <<Ch("a"), Ch("B"), Cl("!=", 1, FALSE)>>
\* "b>1@@@"
LineBadTail == <<Ch("b"), Cl(">", 1, FALSE), Junk>>
\* "b ,"
LineCommaOnly == <<Ch("b"), Sp, Comma>>

ParseLines ==
    Lines \cup {LineBlank, LineNoName, LineLong, LineBadTail, LineCommaOnly}

ConstraintSets == SubsetsUpTo(Clauses, MaxSetLen)

SmallSets == SubsetsUpTo(Clauses, 1)

UnitAnswers == {Answer("ok", rs) : rs \in SUBSET VersionTexts} \cup OddAnswers

ParseFrame(text) == [fn |-> "parse_requirements", file_content |-> text]

MergeFrame(s1, s2) == [fn |-> "merge_specifiers", spec1 |-> s1, spec2 |-> s2]

SelectFrame(s, answer) ==
    [fn |-> "select_version", spec_set |-> s, answer |-> answer]

UnitInit ==
    /\ \/ \E text \in SeqsUpTo(ParseLines, MaxParseLines) :
             call = ParseFrame(text)
       \/ \E x \in ConstraintSets, y \in SmallSets :
             call = MergeFrame(x, y) \/ call = MergeFrame(y, x)
       \/ \E x \in ConstraintSets, a \in UnitAnswers :
             call = SelectFrame(x, a)
    /\ pc = "unit"
    /\ file1_content = <<>>
    /\ file2_content = <<>>
    /\ deps1 = EmptyDict
    /\ deps2 = EmptyDict
    /\ todo = <<>>
    /\ results = <<>>
    /\ resolved_requirements = EmptyDict
    /\ all_resolved = TRUE
    /\ lookup = NoAnswer
    /\ analysis = Pending
    /\ response = Pending

UnitRest ==
    UNCHANGED <<file1_content, file2_content, deps1, deps2, todo, results,
                resolved_requirements, all_resolved, lookup, analysis, call>>

\* parse_requirements(file_content)
ParseCall ==
    /\ pc = "unit"
    /\ call.fn = "parse_requirements"
    /\ response' = parse_requirements(call.file_content)
    /\ pc' = "returned"
    /\ UnitRest

\* merge_specifiers(spec1, spec2)
MergeCall ==
    /\ pc = "unit"
    /\ call.fn = "merge_specifiers"
    /\ response' = merge_specifiers(call.spec1, call.spec2)
    /\ pc' = "returned"
    /\ UnitRest

\* select_version(spec_set, package_name)
SelectCall ==
    /\ pc = "unit"
    /\ call.fn = "select_version"
    /\ response' = select_version(call.spec_set, call.answer)
    /\ pc' = "returned"
    /\ UnitRest

UnitNext == ParseCall \/ MergeCall \/ SelectCall

UnitSpec == UnitInit /\ [][UnitNext]_vars

\* ------------------------------------------------------------ properties
\* the latest row, and whether `lookup` is the answer it was made from
LastRow == results[Len(results)]

RowLookup == results # <<>> /\ ~(pc = "done" /\ analysis.raised)

\* analyze_requirements has returned a report
Reported == pc = "done" /\ ~analysis.raised /\ analysis.results_df.type = "DataFrame"

Rows == analysis.results_df.rows

\* the versions the index published (an answer that is a version set)
Published(answer) ==
    IF answer.kind = "ok" THEN {VersionParse(t) : t \in answer.releases} ELSE {}

\* C1: a Resolved row carries a version that the index published for the
\* package and that satisfies every clause manifest 1 and every clause
\* manifest 2 give for the package; every pin of the merged output is the
\* selected version of the Resolved row of its package.
C1_ResolvedSatisfiesBoth ==
    /\ (RowLookup /\ LastRow.Status = "Resolved") =>
          /\ ~LastRow.Selected.none
          /\ LastRow.Selected.val \in lookup.releases
          /\ \A c \in DictGet(deps1, LastRow.Package) :
                ClauseContains(c, VersionParse(LastRow.Selected.val))
          /\ \A c \in DictGet(deps2, LastRow.Package) :
                ClauseContains(c, VersionParse(LastRow.Selected.val))
    /\ (Reported /\ analysis.resolved_content.type = "str") =>
          \A i \in 1..Len(analysis.resolved_content.val) :
             \E j \in 1..Len(Rows) :
                /\ Rows[j].Status = "Resolved"
                /\ Rows[j].Package = analysis.resolved_content.val[i].pkg
                /\ Rows[j].Selected = Some(analysis.resolved_content.val[i].ver)

\* a package both manifests constrain, resolved
C1_Witness ==
    /\ RowLookup
    /\ LastRow.Status = "Resolved"
    /\ DictGet(deps1, LastRow.Package) # {}
    /\ DictGet(deps2, LastRow.Package) # {}
    /\ DictGet(deps1, LastRow.Package) # DictGet(deps2, LastRow.Package)

\* the catalog versions that satisfy the constraint set of a select call
Satisfying == {v \in Published(call.answer) : Contains(call.spec_set, v)}

SelectReturned ==
    pc = "returned" /\ call.fn = "select_version" /\ ~response.raised

PinnedApart(spec1, spec2) ==
    \E c \in spec1, d \in spec2 :
       c.op = "==" /\ d.op = "==" /\ ClauseVersion(c) # ClauseVersion(d)

\* C3: a package the two manifests constrain with clauses no version
\* satisfies jointly gets a row of status Conflict, the merged output is
\* withheld and all_resolved is false.
C3_ConflictReported ==
    \A i \in 1..Len(results) :
       PinnedApart(DictGet(deps1, results[i].Package),
                   DictGet(deps2, results[i].Package)) =>
          /\ results[i].Status = "Conflict"
          /\ ~all_resolved
          /\ Reported => analysis.resolved_content = NoneValue

\* the first invalid line of a text, as parse_requirements reports it
HasInvalid(text) == \E i \in 1..Len(text) : ParseLine(text[i]).kind = "error"

FirstInvalid(text) ==
    LET i == CHOOSE k \in 1..Len(text) :
                /\ ParseLine(text[k]).kind = "error"
                /\ \A m \in 1..(k - 1) : ParseLine(text[m]).kind # "error"
    IN  InvalidSpecifierMessage(ParseLine(text[i]).pkg, ParseLine(text[i]).text)

\* C4: when a manifest given to compare_requirements has a line whose
\* constraint text does not parse, there is no table and no merged text and
\* the error returned is the message naming the package and the text.
C4_ErrorReturned ==
    (/\ pc = "done"
     /\ call.fn = "compare_requirements"
     /\ file1_content # <<>> /\ file2_content # <<>>
     /\ HasInvalid(file1_content) \/ HasInvalid(file2_content)) =>
        /\ ~response.raised
        /\ response.results_df = NoneValue
        /\ response.resolved_content = NoneValue
        /\ response.error \in
              {Str(FirstInvalid(t)) :
                 t \in {u \in {file1_content, file2_content} : HasInvalid(u)}}

RowsAscending(rows) ==
    \A i, j \in 1..Len(rows) : i < j => StrLess(rows[i].Package, rows[j].Package)

\* C5: all_resolved is true iff every row is Resolved; the merged output is
\* produced iff all_resolved and there is a row, and then it has exactly one
\* line name==version for each row, in ascending order of name.
C5_FlagAndOutput ==
    Reported =>
        /\ analysis.all_resolved <=>
              \A i \in 1..Len(Rows) : Rows[i].Status = "Resolved"
        /\ analysis.resolved_content.type = "str" <=>
              (analysis.all_resolved /\ Len(Rows) > 0)
        /\ analysis.resolved_content.type = "str" =>
              LET out == analysis.resolved_content.val
              IN  /\ Len(out) = Len(Rows)
                  /\ \A i \in 1..Len(Rows) :
                        \E j \in 1..Len(out) :
                           /\ out[j].pkg = Rows[i].Package
                           /\ Some(out[j].ver) = Rows[i].Selected
                  /\ \A i, j \in 1..Len(out) :
                        i < j => StrLess(out[i].pkg, out[j].pkg)

\* a merged output of two lines
C5_Witness ==
    /\ Reported
    /\ analysis.resolved_content.type = "str"
    /\ Len(analysis.resolved_content.val) >= 2

\* the lookup failed: nothing that is a set of versions came back
LookupFailed ==
    \/ lookup.kind \in FailureKinds
    \/ lookup.kind = "ok" /\ \E t \in lookup.releases : ~t.valid

\* C6: a failed lookup counts as an empty version set: the package's row is
\* Unresolved with reason 'No versions available', all_resolved is false and
\* no error leaves the resolution.
C6_FailureIsEmpty ==
    (pc \in {"loop", "done"} /\ LookupFailed) =>
        /\ ~analysis.raised
        /\ results # <<>>
        /\ LastRow.Status = "Unresolved"
        /\ LastRow.Reason = "No versions available"
        /\ ~all_resolved

MergeReturned == pc = "returned" /\ call.fn = "merge_specifiers"

\* C7: merge_specifiers(unconstrained, X) and merge_specifiers(X,
\* unconstrained) return a constraint set with exactly the clauses of X, for
\* every X, the unconstrained set included.
C7_IdentityLaw ==
    MergeReturned =>
        /\ call.spec1 = {} => response = Some(call.spec2)
        /\ call.spec2 = {} => response = Some(call.spec1)

PackagesOf(rows) == {rows[i].Package : i \in 1..Len(rows)}

\* C8: the report has exactly one row for each package of the union of the
\* two manifests' keys and no other row, in strictly ascending order of name;
\* while the packages are visited none is dropped, whatever the rows before.
C8_OneRowPerPackage ==
    /\ pc = "loop" =>
          /\ PackagesOf(results) \cup Range(todo) = DOMAIN deps1 \cup DOMAIN deps2
          /\ Len(results) + Len(todo) = Cardinality(DOMAIN deps1 \cup DOMAIN deps2)
    /\ Reported =>
          /\ PackagesOf(Rows) = DOMAIN deps1 \cup DOMAIN deps2
          /\ Len(Rows) = Cardinality(DOMAIN deps1 \cup DOMAIN deps2)
          /\ RowsAscending(Rows)

\* a report of two rows whose first is not Resolved
C8_Witness ==
    /\ Reported
    /\ Len(Rows) >= 2
    /\ Rows[1].Status # "Resolved"

\* a line that is not blank, is no comment and starts with a name
FirstToken(raw) ==
    raw[CHOOSE i \in 1..Len(raw) : raw[i] # Sp /\ \A k \in 1..(i - 1) : raw[k] = Sp]

Named(raw) == (\E i \in 1..Len(raw) : raw[i] # Sp) /\ FirstToken(raw).t = "ch"

ParseReturned == pc = "returned" /\ call.fn = "parse_requirements"

\* C9: on a text whose clauses are all valid, parse_requirements returns a
\* manifest whose keys are the lower-cased names of the lines that start with
\* a name, each mapped to the constraint set of the last line naming it; on a
\* text with an invalid clause it returns no manifest and reports the first
\* invalid line.
C9_ParseLastWins ==
    ParseReturned =>
        LET text == call.file_content
            named == {i \in 1..Len(text) : Named(text[i])}
            key(i) == ParseLine(text[i]).pkg
        IN  IF HasInvalid(text)
            THEN /\ response.deps.none
                 /\ response.error = Some(FirstInvalid(text))
            ELSE /\ response.error.none
                 /\ DOMAIN response.deps.val = {key(i) : i \in named}
                 /\ \A k \in DOMAIN response.deps.val : Lower(k) = k
                 /\ \A i \in named :
                       (\A j \in named : j > i => key(j) # key(i)) =>
                          response.deps.val[key(i)] = ParseLine(text[i]).spec

\* two lines name one package in different case with different clauses
C9_Witness ==
    /\ ParseReturned
    /\ response.error.none
    /\ \E i, j \in 1..Len(call.file_content) :
          /\ i < j
          /\ Named(call.file_content[i]) /\ Named(call.file_content[j])
          /\ Head(Strip(call.file_content[i])) # Head(Strip(call.file_content[j]))
          /\ ParseLine(call.file_content[i]).pkg = ParseLine(call.file_content[j]).pkg
          /\ ParseLine(call.file_content[i]).spec # ParseLine(call.file_content[j]).spec

\* C10: the ascending scan of select_version never returns a version: the
\* outcome is 'Selected largest version', 'No versions available' or 'No
\* compatible version found in available versions'.
C10_NoSmallestOutcome ==
    SelectReturned =>
        /\ response.reason \in
              {"Selected largest version", "No versions available",
               "No compatible version found in available versions"}
        /\ response.reason # "No larger version found; selected smallest version"

\* the descending scan found nothing in a catalog of several versions
C10_Witness ==
    /\ SelectReturned
    /\ Cardinality(Published(call.answer)) >= 2
    /\ call.spec_set # {}
    /\ response.reason = "No compatible version found in available versions"

====
